---- MODULE Spec2Model ----
(***************************************************************************)
(* Reputation scoring of the consensus core (leader_scoring.rs):           *)
(* ReputationScoreCalculator (new, calculate, calculate_scores_for_leader, *)
(* find_supported_block, is_vote, is_certificate, the block index          *)
(* queries) and ReputationScores (new, authorities_by_score_desc).         *)
(*                                                                         *)
(* Spec       : a caller assembles committed sub-DAGs the way the unit     *)
(*              tests do, builds a calculator with new and runs calculate  *)
(*              (possibly again on the same calculator).                   *)
(* SpecScores : ReputationScores::new on an arbitrary score vector         *)
(*              followed by authorities_by_score_desc.                     *)
(* SpecVotes  : a calculator over a small arbitrary DAG, on which is_vote  *)
(*              and is_certificate are called block by block.              *)
(* SpecExtend : Spec, after which the caller adds one block to the input   *)
(*              and scores it with a new calculator.                       *)
(* SpecOrder  : Spec, after which the caller reorders or doubles blocks of *)
(*              the input and scores it with a new calculator.             *)
(***************************************************************************)
EXTENDS Integers, Sequences, FiniteSets, TLC

VARIABLES
    committee,            \* context.committee: authority index -> stake
    committers,           \* committer.committers: sequence of sub-committers
    unscored_subdags,     \* the &Vec<CommittedSubDag> handed to new
    edits,                \* how many blocks the caller left out or doubled
    pc,                   \* position of the caller / of calculate
    unscored_blocks,      \* self.unscored_blocks: BlockRef -> block
    commit_range,         \* self.commit_range
    scores_per_authority, \* self.scores_per_authority
    leader_round,         \* calculate: loop variable of the outer for
    last_leader_round,    \* calculate: inclusive end of the outer range, as
                          \* [wrapped, low]: low, plus 2^32 if wrapped
    committer_idx,        \* calculate: position in committers (inner for)
    leader_block,         \* calculate_scores_for_leader: Option as a set
    decision_blocks,      \* calculate_scores_for_leader: blocks left to try
    all_votes,            \* calculate_scores_for_leader: the HashMap
    scored,               \* leader blocks whose scoring has started (history)
    results,              \* every ReputationScores returned so far, in order
    error,                \* the panic that ended the run, "" if none
    authorities,          \* what authorities_by_score_desc returned
    previous,             \* what an earlier calculator returned for the
                          \* input before the caller changed it (history)
    probe                 \* the last direct call of is_vote or
                          \* is_certificate with its outcome (history)

vars == <<committee, committers, unscored_subdags, edits, pc, unscored_blocks,
          commit_range, scores_per_authority, leader_round, last_leader_round,
          committer_idx, leader_block, decision_blocks, all_votes, scored,
          results, error, authorities, previous, probe>>

----------------------------------------------------------------------------
(* Bounds of the model *)

MaxRound == 5          \* highest round a caller puts into a window
MaxStartRound == 1     \* lowest round of a window is 0..MaxStartRound
MaxSubDags == 2        \* sub-DAGs handed to new
MaxCommitIndex == 2    \* commit_index is 1..MaxCommitIndex
MaxEdits == 1          \* blocks left out of, or doubled in, the input
MaxCalls == 2          \* calculate calls on one calculator
MaxScore == 4          \* entries of a hand-made score vector (SpecScores)

(* Program constants *)

Margin == 3            \* "leaders up to R - 3"

----------------------------------------------------------------------------
(* Small helpers *)

Max(S) == CHOOSE x \in S : \A y \in S : y <= x
Min(S) == CHOOSE x \in S : \A y \in S : x <= y
Range(s) == {s[i] : i \in 1..Len(s)}

RECURSIVE Flatten(_)
Flatten(ss) == IF ss = <<>> THEN <<>> ELSE Head(ss) \o Flatten(Tail(ss))

\* BlockRef: Ord is derived, field order (round, author, digest)
BlockRef(round, author, digest) ==
    [round |-> round, author |-> author, digest |-> digest]

RefLess(a, b) ==
    \/ a.round < b.round
    \/ a.round = b.round /\ a.author < b.author
    \/ a.round = b.round /\ a.author = b.author /\ a.digest < b.digest

\* Slot::from(BlockRef)
SlotOf(ref) == [round |-> ref.round, authority |-> ref.author]

\* the blocks of a set in ascending BlockRef order (BTreeMap iteration)
RECURSIVE InRefOrder(_)
InRefOrder(S) ==
    IF S = {} THEN <<>>
    ELSE LET m == CHOOSE b \in S : \A c \in S : c = b \/ RefLess(b.ref, c.ref)
         IN  <<m>> \o InRefOrder(S \ {m})

----------------------------------------------------------------------------
(* Committee and sub-committers: collaborators of the scoring module *)

Size == Cardinality(DOMAIN committee)
Authorities == DOMAIN committee

RECURSIVE SumStake(_)
SumStake(S) ==
    IF S = {} THEN 0
    ELSE LET a == CHOOSE x \in S : TRUE IN committee[a] + SumStake(S \ {a})

quorum_threshold == ((2 * SumStake(Authorities)) \div 3) + 1

\* StakeAggregator::<QuorumThreshold>::add on an aggregator (votes, total):
\* the new aggregator and whether the threshold is reached
StakeAdd(agg, author) ==
    LET fresh == author \notin agg.votes
        next == [votes |-> agg.votes \cup {author},
                 total |-> IF fresh THEN agg.total + committee[author]
                           ELSE agg.total]
    IN  [agg |-> next, reached |-> next.total >= quorum_threshold]

wave_number(c, round) ==
    (IF round >= c.round_offset THEN round - c.round_offset ELSE 0)
        \div c.wave_length

wave_leader_round(c, wave) == (wave * c.wave_length) + c.round_offset

decision_round(c, wave) ==
    (wave * c.wave_length) + c.wave_length - 1 + c.round_offset

\* Option<Slot> as a set with at most one element
elect_leader(c, round) ==
    IF wave_leader_round(c, wave_number(c, round)) # round THEN {}
    ELSE {[round |-> round, authority |-> (round + c.leader_offset) % Size]}

SubCommitter(wl, ro, lo) ==
    [wave_length |-> wl, round_offset |-> ro, leader_offset |-> lo]

Committees ==
    { [a \in 0..0 |-> 1],
      [a \in 0..1 |-> IF a = 0 THEN 3 ELSE 1],
      [a \in 0..3 |-> 1] }

CommitterSets ==
    { <<SubCommitter(3, 0, 0), SubCommitter(3, 1, 0), SubCommitter(3, 2, 0)>>,
      <<SubCommitter(3, 1, 0), SubCommitter(3, 1, 1)>>,
      <<SubCommitter(4, 1, 0)>> }

----------------------------------------------------------------------------
(* The block index *)

get_block(ref) ==
    IF ref \in DOMAIN unscored_blocks THEN {unscored_blocks[ref]} ELSE {}

get_blocks_at_slot(slot) ==
    InRefOrder({unscored_blocks[r] : r \in
                   {x \in DOMAIN unscored_blocks : SlotOf(x) = slot}})

get_blocks_at_round(round) ==
    InRefOrder({unscored_blocks[r] : r \in
                   {x \in DOMAIN unscored_blocks : x.round = round}})

----------------------------------------------------------------------------
(* Votes and certificates *)

RECURSIVE find_supported_block(_, _), ScanAncestors(_, _, _)
RECURSIVE ScanAncestorsNoWeakLinks(_, _, _)

\* ScanAncestors without "if ancestor.round <= leader_slot.round { continue }"
ScanAncestorsNoWeakLinks(leader_slot, ancestors, i) ==
    IF i > Len(ancestors) THEN {}
    ELSE LET ancestor == ancestors[i] IN
         IF SlotOf(ancestor) = leader_slot THEN {ancestor}
         ELSE IF get_block(ancestor) # {}
              THEN LET support ==
                         find_supported_block(leader_slot,
                                              unscored_blocks[ancestor])
                   IN  IF support # {} THEN support
                       ELSE ScanAncestorsNoWeakLinks(leader_slot, ancestors,
                                                     i + 1)
         ELSE {}

RECURSIVE ScanAncestorsSkipMissing(_, _, _)

\* ScanAncestors with "continue" where an ancestor the index lacks makes the
\* code return None
ScanAncestorsSkipMissing(leader_slot, ancestors, i) ==
    IF i > Len(ancestors) THEN {}
    ELSE LET ancestor == ancestors[i] IN
         IF SlotOf(ancestor) = leader_slot THEN {ancestor}
         ELSE IF ancestor.round <= leader_slot.round
              THEN ScanAncestorsSkipMissing(leader_slot, ancestors, i + 1)
         ELSE IF get_block(ancestor) # {}
              THEN LET support ==
                         find_supported_block(leader_slot,
                                              unscored_blocks[ancestor])
                   IN  IF support # {} THEN support
                       ELSE ScanAncestorsSkipMissing(leader_slot, ancestors,
                                                     i + 1)
         ELSE ScanAncestorsSkipMissing(leader_slot, ancestors, i + 1)

\* the for loop of find_supported_block from position i on
ScanAncestors(leader_slot, ancestors, i) ==
    IF i > Len(ancestors) THEN {}
    ELSE LET ancestor == ancestors[i] IN
         IF SlotOf(ancestor) = leader_slot THEN {ancestor}
         ELSE IF ancestor.round <= leader_slot.round
              THEN ScanAncestors(leader_slot, ancestors, i + 1)
         ELSE IF get_block(ancestor) # {}
              THEN LET support ==
                         find_supported_block(leader_slot,
                                              unscored_blocks[ancestor])
                   IN  IF support # {} THEN support
                       ELSE ScanAncestors(leader_slot, ancestors, i + 1)
         ELSE {}

find_supported_block(leader_slot, from) ==
    IF from.ref.round < leader_slot.round THEN {}
    ELSE ScanAncestors(leader_slot, from.ancestors, 1)

\* is_vote that compares the slot of what was found, not the reference
is_vote_by_slot(potential_vote, leader) ==
    find_supported_block(SlotOf(leader.ref), potential_vote) # {}

is_vote(potential_vote, leader) ==
    find_supported_block(SlotOf(leader.ref), potential_vote) = {leader.ref}

CacheInsert(cache, ref, flag) ==
    [r \in DOMAIN cache \cup {ref} |-> IF r = ref THEN flag ELSE cache[r]]

RECURSIVE CertScanAbsentIsVote(_, _, _, _, _)

\* CertScan that takes a reference that get_block does not find for a vote
CertScanAbsentIsVote(ancestors, i, leader, cache, agg) ==
    IF i > Len(ancestors) THEN [result |-> FALSE, all_votes |-> cache]
    ELSE LET reference == ancestors[i]
             cached == reference \in DOMAIN cache
             found == get_block(reference) # {}
             vote == IF cached THEN cache[reference]
                     ELSE IF found
                          THEN is_vote(unscored_blocks[reference], leader)
                     ELSE TRUE
             cache2 == IF ~cached /\ found
                       THEN CacheInsert(cache, reference, vote)
                       ELSE cache
             added == StakeAdd(agg, reference.author)
         IN  IF vote
             THEN IF added.reached
                  THEN [result |-> TRUE, all_votes |-> cache2]
                  ELSE CertScanAbsentIsVote(ancestors, i + 1, leader, cache2,
                                            added.agg)
             ELSE CertScanAbsentIsVote(ancestors, i + 1, leader, cache2, agg)

RECURSIVE CertScanCachesAbsent(_, _, _, _, _)

\* CertScan with all_votes.insert also in the branch of a reference that
\* get_block does not find
CertScanCachesAbsent(ancestors, i, leader, cache, agg) ==
    IF i > Len(ancestors) THEN [result |-> FALSE, all_votes |-> cache]
    ELSE LET reference == ancestors[i]
             cached == reference \in DOMAIN cache
             found == get_block(reference) # {}
             vote == IF cached THEN cache[reference]
                     ELSE IF found
                          THEN is_vote(unscored_blocks[reference], leader)
                     ELSE FALSE
             cache2 == IF ~cached
                       THEN CacheInsert(cache, reference, vote)
                       ELSE cache
             added == StakeAdd(agg, reference.author)
         IN  IF vote
             THEN IF added.reached
                  THEN [result |-> TRUE, all_votes |-> cache2]
                  ELSE CertScanCachesAbsent(ancestors, i + 1, leader, cache2,
                                            added.agg)
             ELSE CertScanCachesAbsent(ancestors, i + 1, leader, cache2, agg)

\* the for loop of is_certificate from position i on:
\* [result |-> the bool returned, all_votes |-> the cache afterwards]
RECURSIVE CertScan(_, _, _, _, _)
CertScan(ancestors, i, leader, cache, agg) ==
    IF i > Len(ancestors) THEN [result |-> FALSE, all_votes |-> cache]
    ELSE LET reference == ancestors[i]
             cached == reference \in DOMAIN cache
             found == get_block(reference) # {}
             vote == IF cached THEN cache[reference]
                     ELSE IF found
                          THEN is_vote(unscored_blocks[reference], leader)
                     ELSE FALSE
             cache2 == IF ~cached /\ found
                       THEN CacheInsert(cache, reference, vote)
                       ELSE cache
             added == StakeAdd(agg, reference.author)
         IN  IF vote
             THEN IF added.reached
                  THEN [result |-> TRUE, all_votes |-> cache2]
                  ELSE CertScan(ancestors, i + 1, leader, cache2, added.agg)
             ELSE CertScan(ancestors, i + 1, leader, cache2, agg)

is_certificate(potential_certificate, leader, cache) ==
    CertScan(potential_certificate.ancestors, 1, leader, cache,
             [votes |-> {}, total |-> 0])

add_score_twice(scores, authority_idx, score) ==
    [scores EXCEPT ![authority_idx] = @ + score + score]

\* add_score with = in the place of +=
add_score_assign(scores, authority_idx, score) ==
    [scores EXCEPT ![authority_idx] = score]

add_score(scores, authority_idx, score) ==
    [scores EXCEPT ![authority_idx] = @ + score]

----------------------------------------------------------------------------
(* ReputationScores *)

ReputationScoresNew(range, scores) ==
    [scores_per_authority |-> scores, commit_range |-> range]

\* Compare with the tie resolved by a1.0.cmp(&a2.0)
CompareTieAscending(a1, a2) ==
    IF a2[2] < a1[2] THEN "Less"
    ELSE IF a2[2] > a1[2] THEN "Greater"
    ELSE IF a1[1] < a2[1] THEN "Less"
    ELSE IF a1[1] > a2[1] THEN "Greater"
    ELSE "Equal"

\* the closure handed to sort_by: "Less" puts a1 before a2
Compare(a1, a2) ==
    IF a2[2] < a1[2] THEN "Less"
    ELSE IF a2[2] > a1[2] THEN "Greater"
    ELSE IF a2[1] < a1[1] THEN "Less"
    ELSE IF a2[1] > a1[1] THEN "Greater"
    ELSE "Equal"

\* sort_by is a stable sort: x goes behind everything not greater than it
RECURSIVE InsertSorted(_, _)
InsertSorted(sorted, x) ==
    IF sorted = <<>> THEN <<x>>
    ELSE IF Compare(x, Head(sorted)) = "Less" THEN <<x>> \o sorted
    ELSE <<Head(sorted)>> \o InsertSorted(Tail(sorted), x)

RECURSIVE SortBy(_)
SortBy(s) ==
    IF s = <<>> THEN <<>>
    ELSE InsertSorted(SortBy(SubSeq(s, 1, Len(s) - 1)), s[Len(s)])

\* committee.to_authority_index(index): Some(index) below the committee size
to_authority_index(index) == IF index < Size THEN {index} ELSE {}

\* the indexes of the score vector that are no AuthorityIndex: expect panics
InvalidIndexes(scores) ==
    {i \in DOMAIN scores.scores_per_authority : to_authority_index(i) = {}}

authorities_by_score_desc(scores) ==
    SortBy([i \in 1..Cardinality(DOMAIN scores.scores_per_authority) |->
               <<CHOOSE a \in to_authority_index(i - 1) : TRUE,
                 scores.scores_per_authority[i - 1]>>])

----------------------------------------------------------------------------
(* The caller: committed sub-DAGs assembled as the unit tests assemble them *)

Block(ref, ancestors) == [ref |-> ref, ancestors |-> ancestors]

\* a block of a fully connected round: its ancestors are every authority's
\* block of the round before, in authority order; genesis has none
TestBlock(round, author) ==
    Block(BlockRef(round, author, 0),
          IF round = 0 THEN <<>>
          ELSE [i \in 1..Size |-> BlockRef(round - 1, i - 1, 0)])

\* the leader a sub-DAG is anchored at: the only block of its top round
SubDagLeader(round) == round % Size

RECURSIVE RoundBlocks(_, _)
\* blocks of the authors in S at a round, in author order
RoundBlocks(round, S) ==
    IF S = {} THEN <<>>
    ELSE LET a == Min(S)
         IN  <<TestBlock(round, a)>> \o RoundBlocks(round, S \ {a})

RECURSIVE FullRounds(_, _)
FullRounds(lo, hi) ==
    IF lo > hi THEN <<>>
    ELSE RoundBlocks(lo, Authorities) \o FullRounds(lo + 1, hi)

AllBlocks == Flatten([i \in 1..Len(unscored_subdags) |->
                          unscored_subdags[i].blocks])

HasBlocks == AllBlocks # <<>>
TopRound == Max({b.ref.round : b \in Range(AllBlocks)})

CommittedSubDag(leader, blocks, commit_index) ==
    [leader |-> leader, blocks |-> blocks, commit_index |-> commit_index]

Fresh ==
    /\ unscored_blocks = <<>>
    /\ commit_range = [start |-> 0, end |-> 0]
    /\ scores_per_authority = <<>>
    /\ leader_round = 0
    /\ last_leader_round = [wrapped |-> FALSE, low |-> 0]
    /\ committer_idx = 1
    /\ leader_block = {}
    /\ decision_blocks = <<>>
    /\ all_votes = <<>>
    /\ scored = {}
    /\ results = <<>>
    /\ error = ""
    /\ authorities = <<>>
    /\ previous = <<>>
    /\ probe = <<>>

calcVars == <<unscored_blocks, commit_range, scores_per_authority,
              leader_round, last_leader_round, committer_idx, leader_block,
              decision_blocks, all_votes, scored, results, error,
              authorities, previous, probe>>

Init ==
    /\ committee \in Committees
    /\ committers \in CommitterSets
    /\ unscored_subdags = <<>>
    /\ edits = 0
    /\ pc = "build"
    /\ Fresh

\* the first sub-DAG of a window: rounds lo..hi, of round hi only the leader
AddFirstSubDag(ci, lo, hi) ==
    /\ pc = "build"
    /\ Len(unscored_subdags) < MaxSubDags
    /\ ~HasBlocks
    /\ unscored_subdags' = Append(unscored_subdags,
           CommittedSubDag(BlockRef(hi, SubDagLeader(hi), 0),
                           FullRounds(lo, hi - 1)
                               \o <<TestBlock(hi, SubDagLeader(hi))>>,
                           ci))
    /\ UNCHANGED <<committee, committers, edits, pc>>
    /\ UNCHANGED calcVars

\* the next sub-DAG: what the one before left of its top round, then the
\* rounds up to hi, of round hi only the leader
AddNextSubDag(ci, hi) ==
    /\ pc = "build"
    /\ Len(unscored_subdags) < MaxSubDags
    /\ HasBlocks
    /\ hi > TopRound
    /\ unscored_subdags' = Append(unscored_subdags,
           CommittedSubDag(BlockRef(hi, SubDagLeader(hi), 0),
                           RoundBlocks(TopRound,
                               Authorities \ {SubDagLeader(TopRound)})
                               \o FullRounds(TopRound + 1, hi - 1)
                               \o <<TestBlock(hi, SubDagLeader(hi))>>,
                           ci))
    /\ UNCHANGED <<committee, committers, edits, pc>>
    /\ UNCHANGED calcVars

\* a sub-DAG without blocks (test_reputation_score_calculator_no_subdag_blocks)
AddEmptySubDag(ci) ==
    /\ pc = "build"
    /\ Len(unscored_subdags) < MaxSubDags
    /\ unscored_subdags' = Append(unscored_subdags,
           CommittedSubDag(BlockRef(1, 0, 0), <<>>, ci))
    /\ UNCHANGED <<committee, committers, edits, pc>>
    /\ UNCHANGED calcVars

RemoveAt(s, i) == SubSeq(s, 1, i - 1) \o SubSeq(s, i + 1, Len(s))
InsertAfter(s, i, x) == SubSeq(s, 1, i) \o <<x>> \o SubSeq(s, i + 1, Len(s))

\* a block that stays referenced but is not part of the committed sub-DAGs
\* (test_scoring_with_missing_block_in_subdag)
OmitBlock(s, i) ==
    /\ pc = "build"
    /\ edits < MaxEdits
    /\ s \in 1..Len(unscored_subdags)
    /\ i \in 1..Len(unscored_subdags[s].blocks)
    /\ unscored_subdags' =
           [unscored_subdags EXCEPT ![s].blocks = RemoveAt(@, i)]
    /\ edits' = edits + 1
    /\ UNCHANGED <<committee, committers, pc>>
    /\ UNCHANGED calcVars

\* a second block of the same slot: same round and author, another digest
Equivocate(s, i) ==
    /\ pc = "build"
    /\ edits < MaxEdits
    /\ s \in 1..Len(unscored_subdags)
    /\ i \in 1..Len(unscored_subdags[s].blocks)
    /\ LET b == unscored_subdags[s].blocks[i]
           twin == Block(BlockRef(b.ref.round, b.ref.author, 1), b.ancestors)
       IN  /\ b.ref.digest = 0
           /\ twin \notin Range(AllBlocks)
           /\ unscored_subdags' =
                  [unscored_subdags EXCEPT ![s].blocks = InsertAfter(@, i, twin)]
    /\ edits' = edits + 1
    /\ UNCHANGED <<committee, committers, pc>>
    /\ UNCHANGED calcVars

----------------------------------------------------------------------------
(* ReputationScoreCalculator *)

inputVars == <<committee, committers, unscored_subdags, edits, previous,
               probe>>

\* collect::<BTreeMap<_, _>>: a later block of the same BlockRef replaces
\* an earlier one
CollectBlocks(blocks) ==
    [r \in {b.ref : b \in Range(blocks)} |->
        blocks[Max({i \in 1..Len(blocks) : blocks[i].ref = r})]]

CommitRangeNew(start, end) == [start |-> start, end |-> end]

\* CommitRangeOf taking the first and the last sub-DAG for min and max
CommitRangeFirstLast(subdags) ==
    CommitRangeNew(subdags[1].commit_index, subdags[Len(subdags)].commit_index)

\* min and max of the sub-DAGs' commit indexes, as CommitRange::new(min..max)
CommitRangeOf(subdags) ==
    LET commit_indexes == {subdags[i].commit_index : i \in 1..Len(subdags)}
    IN  CommitRangeNew(Min(commit_indexes), Max(commit_indexes))

\* assert!(!unscored_subdags.is_empty())
HasSubDags(subdags) == subdags # <<>>

\* HasUnscoredBlocks with the assertion left out
BlocksNotChecked(blocks) == TRUE

\* assert!(!self.unscored_blocks.is_empty())
HasUnscoredBlocks(blocks) == DOMAIN blocks # {}

\* OneLeaderBlock with the assertion left out
LeaderBlocksNotChecked(leader_blocks) == TRUE

\* assert!(leader_blocks.len() == 1)
OneLeaderBlock(leader_blocks) == Len(leader_blocks) = 1

new ==
    /\ pc \in {"build", "resubmitted"}
    /\ IF ~HasSubDags(unscored_subdags)
       THEN /\ pc' = "panicked"
            /\ error' = "EmptyInput"
            /\ UNCHANGED <<unscored_blocks, commit_range,
                           scores_per_authority>>
       ELSE /\ scores_per_authority' = [a \in 0..(Size - 1) |-> 0]
            /\ unscored_blocks' = CollectBlocks(AllBlocks)
            /\ commit_range' = CommitRangeOf(unscored_subdags)
            /\ pc' = "ready"
            /\ UNCHANGED error
    /\ UNCHANGED inputVars
    /\ UNCHANGED <<leader_round, last_leader_round, committer_idx,
                   leader_block, decision_blocks, all_votes, scored, results,
                   authorities>>

LeaderRounds == {r.round : r \in DOMAIN unscored_blocks} \ {0}

\* calculate up to the head of its outer loop
calculate ==
    /\ pc = "ready"
    /\ Len(results) < MaxCalls
    /\ IF ~HasUnscoredBlocks(unscored_blocks)
       THEN /\ pc' = "panicked"
            /\ error' = "EmptyBlocks"
            /\ UNCHANGED <<leader_round, last_leader_round>>
       ELSE IF LeaderRounds = {}
       THEN \* min() of no rounds is None, and unwrap panics
            /\ pc' = "panicked"
            /\ error' = "UnwrapNone"
            /\ UNCHANGED <<leader_round, last_leader_round>>
       ELSE IF Max(LeaderRounds) < Margin
       THEN \* max_leader_round - 3 on u32: a panic where overflow is
            \* checked, the wrapped value where it is not
            \/ /\ pc' = "panicked"
               /\ error' = "SubtractOverflow"
               /\ UNCHANGED <<leader_round, last_leader_round>>
            \/ /\ pc' = "loop"
               /\ leader_round' = Min(LeaderRounds)
               /\ last_leader_round' =
                      [wrapped |-> TRUE, low |-> Max(LeaderRounds) - Margin]
               /\ UNCHANGED error
       ELSE /\ pc' = "loop"
            /\ leader_round' = Min(LeaderRounds)
            /\ last_leader_round' =
                   [wrapped |-> FALSE, low |-> Max(LeaderRounds) - Margin]
            /\ UNCHANGED error
    /\ committer_idx' = 1
    /\ UNCHANGED inputVars
    /\ UNCHANGED <<unscored_blocks, commit_range, scores_per_authority,
                   leader_block, decision_blocks, all_votes, scored, results,
                   authorities>>

\* leader_round is within min_leader_round..=(max_leader_round - 3); every
\* round of the model is below 2^32 - 3
InLeaderRange(round) ==
    last_leader_round.wrapped \/ round <= last_leader_round.low

\* the next (leader_round, committer) of the two nested for loops
NextIteration ==
    IF committer_idx < Len(committers)
    THEN /\ committer_idx' = committer_idx + 1
         /\ UNCHANGED leader_round
    ELSE /\ committer_idx' = 1
         /\ leader_round' = leader_round + 1

\* one iteration of the inner loop up to the decision blocks:
\* elect_leader and the head of calculate_scores_for_leader
ElectLeader ==
    /\ pc = "loop"
    /\ InLeaderRange(leader_round)
    /\ leader_round <= Max(LeaderRounds)
    /\ LET committer == committers[committer_idx]
           slot == elect_leader(committer, leader_round)
       IN  IF slot = {}
           THEN /\ NextIteration
                /\ UNCHANGED <<pc, error, leader_block, decision_blocks,
                               all_votes, scored>>
           ELSE LET leader_slot == CHOOSE x \in slot : TRUE
                    wave == wave_number(committer, leader_slot.round)
                    leader_blocks == get_blocks_at_slot(leader_slot)
                IN  IF leader_blocks = <<>>
                    THEN /\ NextIteration
                         /\ UNCHANGED <<pc, error, leader_block,
                                        decision_blocks, all_votes, scored>>
                    ELSE IF ~OneLeaderBlock(leader_blocks)
                    THEN /\ pc' = "panicked"
                         /\ error' = "InvariantViolation"
                         /\ UNCHANGED <<leader_round, committer_idx,
                                        leader_block, decision_blocks,
                                        all_votes, scored>>
                    ELSE /\ leader_block' = {leader_blocks[1]}
                         /\ decision_blocks' =
                                get_blocks_at_round(
                                    decision_round(committer, wave))
                         /\ all_votes' = <<>>
                         /\ scored' = scored \cup {leader_blocks[1].ref}
                         /\ pc' = "score"
                         /\ UNCHANGED <<leader_round, committer_idx, error>>
    /\ UNCHANGED inputVars
    /\ UNCHANGED <<unscored_blocks, commit_range, scores_per_authority,
                   last_leader_round, results, authorities>>

\* one iteration of "for potential_cert in decision_blocks"
ScoreDecisionBlock ==
    /\ pc = "score"
    /\ decision_blocks # <<>>
    /\ LET potential_cert == Head(decision_blocks)
           authority == potential_cert.ref.author
           leader == CHOOSE b \in leader_block : TRUE
           cert == is_certificate(potential_cert, leader, all_votes)
       IN  /\ all_votes' = cert.all_votes
           /\ scores_per_authority' =
                  IF cert.result
                  THEN add_score(scores_per_authority, authority, 1)
                  ELSE scores_per_authority
    /\ decision_blocks' = Tail(decision_blocks)
    /\ UNCHANGED inputVars
    /\ UNCHANGED <<pc, unscored_blocks, commit_range, leader_round,
                   last_leader_round, committer_idx, leader_block, scored,
                   results, error, authorities>>

\* calculate_scores_for_leader returns
LeaderDone ==
    /\ pc = "score"
    /\ decision_blocks = <<>>
    /\ pc' = "loop"
    /\ leader_block' = {}
    /\ NextIteration
    /\ UNCHANGED inputVars
    /\ UNCHANGED <<unscored_blocks, commit_range, scores_per_authority,
                   last_leader_round, decision_blocks, all_votes, scored,
                   results, error, authorities>>

ReturnScores ==
    /\ results' = Append(results,
                         ReputationScoresNew(commit_range,
                                             scores_per_authority))
    /\ pc' = "ready"
    /\ UNCHANGED inputVars
    /\ UNCHANGED <<unscored_blocks, commit_range, scores_per_authority,
                   leader_round, last_leader_round, committer_idx,
                   leader_block, decision_blocks, all_votes, scored, error,
                   authorities>>

\* the outer loop is over: ReputationScores::new(commit_range, scores)
Return ==
    /\ pc = "loop"
    /\ ~InLeaderRange(leader_round)
    /\ ReturnScores

\* a wrapped range goes on above every round of the index: no slot up there
\* holds a block, every one of these iterations returns at its first check,
\* and the loop ends after the last of them
ReturnWrapped ==
    /\ pc = "loop"
    /\ InLeaderRange(leader_round)
    /\ leader_round > Max(LeaderRounds)
    /\ ReturnScores

Next ==
    \/ \E ci \in 1..MaxCommitIndex, lo \in 0..MaxStartRound, hi \in 0..MaxRound :
           lo <= hi /\ AddFirstSubDag(ci, lo, hi)
    \/ \E ci \in 1..MaxCommitIndex, hi \in 0..MaxRound : AddNextSubDag(ci, hi)
    \/ \E ci \in 1..MaxCommitIndex : AddEmptySubDag(ci)
    \/ \E s \in 1..Len(unscored_subdags) :
           \E i \in 1..Len(unscored_subdags[s].blocks) : OmitBlock(s, i)
    \/ \E s \in 1..Len(unscored_subdags) :
           \E i \in 1..Len(unscored_subdags[s].blocks) : Equivocate(s, i)
    \/ new
    \/ calculate
    \/ ElectLeader
    \/ ScoreDecisionBlock
    \/ LeaderDone
    \/ Return
    \/ ReturnWrapped

Spec == Init /\ [][Next]_vars

----------------------------------------------------------------------------
(* ReputationScores built by hand, as the tests of ReputationScores do *)

InitScores ==
    /\ committee \in Committees
    /\ committers = <<>>
    /\ unscored_subdags = <<>>
    /\ edits = 0
    /\ pc = "scores"
    /\ Fresh

ScoresNew(scores, start, end) ==
    /\ pc = "scores"
    /\ results = <<>>
    /\ results' = <<ReputationScoresNew(CommitRangeNew(start, end), scores)>>
    /\ UNCHANGED inputVars
    /\ UNCHANGED <<pc, unscored_blocks, commit_range, scores_per_authority,
                   leader_round, last_leader_round, committer_idx,
                   leader_block, decision_blocks, all_votes, scored, error,
                   authorities>>

AuthoritiesByScoreDesc ==
    /\ pc = "scores"
    /\ results # <<>>
    /\ IF InvalidIndexes(results[1]) # {}
       THEN /\ pc' = "panicked"
            /\ error' = "InvalidAuthorityIndex"
            /\ UNCHANGED authorities
       ELSE /\ authorities' = authorities_by_score_desc(results[1])
            /\ pc' = "sorted"
            /\ UNCHANGED error
    /\ UNCHANGED inputVars
    /\ UNCHANGED <<unscored_blocks, commit_range, scores_per_authority,
                   leader_round, last_leader_round, committer_idx,
                   leader_block, decision_blocks, all_votes, scored, results>>

NextScores ==
    \/ \E scores \in [Authorities -> 0..MaxScore],
          start \in 1..MaxCommitIndex, end \in 1..MaxCommitIndex :
           ScoresNew(scores, start, end)
    \/ AuthoritiesByScoreDesc

SpecScores == InitScores /\ [][NextScores]_vars

----------------------------------------------------------------------------
(* A changed input handed to a new calculator *)

\* the caller keeps what calculate returned, changes its sub-DAGs and is
\* about to build a new calculator from them
Resubmit(subdags, change) ==
    /\ pc = "ready"
    /\ Len(results) = 1
    /\ previous = <<>>
    /\ unscored_subdags' = subdags
    /\ previous' = <<[result |-> results[1],
                      rounds |-> LeaderRounds,
                      change |-> change]>>
    /\ pc' = "resubmitted"
    /\ unscored_blocks' = <<>>
    /\ commit_range' = [start |-> 0, end |-> 0]
    /\ scores_per_authority' = <<>>
    /\ leader_round' = 0
    /\ last_leader_round' = [wrapped |-> FALSE, low |-> 0]
    /\ committer_idx' = 1
    /\ leader_block' = {}
    /\ decision_blocks' = <<>>
    /\ all_votes' = <<>>
    /\ scored' = {}
    /\ results' = <<>>
    /\ UNCHANGED <<committee, committers, edits, error, authorities, probe>>

\* one more block of the fully connected rounds, which the sub-DAGs lacked,
\* is put at the end of the last sub-DAG
ExtendInput(round, author) ==
    /\ pc = "ready"
    /\ HasBlocks
    /\ round <= TopRound
    /\ TestBlock(round, author).ref \notin DOMAIN unscored_blocks
    /\ Resubmit([unscored_subdags EXCEPT
                    ![Len(unscored_subdags)].blocks =
                        Append(@, TestBlock(round, author))],
                [kind |-> "extend", block |-> TestBlock(round, author).ref])

InitExtend ==
    /\ Init
    /\ Size <= 2

NextExtend ==
    \/ \E ci \in 1..MaxCommitIndex, lo \in 0..MaxStartRound, hi \in 0..MaxRound :
           lo <= hi /\ AddFirstSubDag(ci, lo, hi)
    \/ \E ci \in 1..MaxCommitIndex, hi \in 0..MaxRound : AddNextSubDag(ci, hi)
    \/ \E ci \in 1..MaxCommitIndex : AddEmptySubDag(ci)
    \/ \E s \in 1..Len(unscored_subdags) :
           \E i \in 1..Len(unscored_subdags[s].blocks) : OmitBlock(s, i)
    \/ new
    \/ calculate
    \/ ElectLeader
    \/ ScoreDecisionBlock
    \/ LeaderDone
    \/ Return
    \/ ReturnWrapped
    \/ \E round \in 0..MaxRound, author \in Authorities :
           ExtendInput(round, author)

SpecExtend == InitExtend /\ [][NextExtend]_vars

\* the sub-DAGs at positions i and i + 1 change places
SwapSubDags(i) ==
    /\ i < Len(unscored_subdags)
    /\ Resubmit([unscored_subdags EXCEPT ![i] = unscored_subdags[i + 1],
                                         ![i + 1] = unscored_subdags[i]],
                [kind |-> "swap_subdags"])

\* the blocks at positions i and i + 1 of sub-DAG s change places
SwapBlocks(s, i) ==
    /\ s \in 1..Len(unscored_subdags)
    /\ i < Len(unscored_subdags[s].blocks)
    /\ Resubmit([unscored_subdags EXCEPT
                    ![s].blocks = [@ EXCEPT
                        ![i] = unscored_subdags[s].blocks[i + 1],
                        ![i + 1] = unscored_subdags[s].blocks[i]]],
                [kind |-> "swap_blocks"])

\* block i of sub-DAG s is also put at the end of sub-DAG t
DuplicateBlock(s, i, t) ==
    /\ s \in 1..Len(unscored_subdags)
    /\ t \in 1..Len(unscored_subdags)
    /\ i \in 1..Len(unscored_subdags[s].blocks)
    /\ Resubmit([unscored_subdags EXCEPT
                    ![t].blocks = Append(@, unscored_subdags[s].blocks[i])],
                [kind |-> "duplicate"])

InitOrder ==
    /\ Init
    /\ Size <= 2

NextOrder ==
    \/ \E ci \in 1..MaxCommitIndex, lo \in 0..MaxStartRound, hi \in 0..MaxRound :
           lo <= hi /\ AddFirstSubDag(ci, lo, hi)
    \/ \E ci \in 1..MaxCommitIndex, hi \in 0..MaxRound : AddNextSubDag(ci, hi)
    \/ \E ci \in 1..MaxCommitIndex : AddEmptySubDag(ci)
    \/ new
    \/ calculate
    \/ ElectLeader
    \/ ScoreDecisionBlock
    \/ LeaderDone
    \/ Return
    \/ ReturnWrapped
    \/ \E i \in 1..MaxSubDags : SwapSubDags(i)
    \/ \E s \in 1..Len(unscored_subdags) :
           \E i \in 1..Len(unscored_subdags[s].blocks) : SwapBlocks(s, i)
    \/ \E s \in 1..Len(unscored_subdags), t \in 1..Len(unscored_subdags) :
           \E i \in 1..Len(unscored_subdags[s].blocks) :
               DuplicateBlock(s, i, t)

SpecOrder == InitOrder /\ [][NextOrder]_vars

----------------------------------------------------------------------------
(* is_vote and is_certificate called on the blocks of a small DAG *)

MaxBlocks == 4
MaxAncestors == 2

\* the references that blocks and ancestor lists are drawn from: a block of
\* round 1, three of round 2 (two of them of one author), one of round 3
VoteRefs ==
    { BlockRef(1, 0, 0), BlockRef(2, 0, 0), BlockRef(2, 0, 1),
      BlockRef(2, 1, 0), BlockRef(3, 0, 0) }

\* ancestor lists of a block of the given round: every ancestor is of a
\* lower round
AncestorLists(round) ==
    UNION { [1..n -> {r \in VoteRefs : r.round < round}] :
                n \in 0..MaxAncestors }

InitVotes ==
    /\ committee = [a \in 0..2 |-> IF a = 0 THEN 2 ELSE 1]
    /\ committers = <<>>
    /\ unscored_subdags = <<>>
    /\ edits = 0
    /\ pc = "build"
    /\ Fresh

\* the caller puts one more block into its only sub-DAG, in BlockRef order
PushBlock(ref, ancestors) ==
    /\ pc = "build"
    /\ Len(AllBlocks) < MaxBlocks
    /\ \A b \in Range(AllBlocks) : RefLess(b.ref, ref)
    /\ unscored_subdags' =
           IF unscored_subdags = <<>>
           THEN <<CommittedSubDag(ref, <<Block(ref, ancestors)>>, 1)>>
           ELSE <<[unscored_subdags[1] EXCEPT
                      !.blocks = Append(@, Block(ref, ancestors))]>>
    /\ UNCHANGED <<committee, committers, edits, pc>>
    /\ UNCHANGED calcVars

\* self.is_vote(potential_vote, leader_block) on two blocks of the index
ProbeVote(potential_vote, leader) ==
    /\ pc = "ready"
    /\ probe = <<>>
    /\ probe' = <<[op |-> "is_vote",
                   candidate |-> potential_vote,
                   leader |-> leader,
                   result |-> is_vote(unscored_blocks[potential_vote],
                                      unscored_blocks[leader]),
                   supported |->
                       find_supported_block(SlotOf(leader),
                           unscored_blocks[potential_vote])]>>
    /\ UNCHANGED <<committee, committers, unscored_subdags, edits, previous>>
    /\ UNCHANGED <<pc, unscored_blocks, commit_range, scores_per_authority,
                   leader_round, last_leader_round, committer_idx,
                   leader_block, decision_blocks, all_votes, scored, results,
                   error, authorities>>

\* self.is_certificate(potential_certificate, leader_block, &mut all_votes)
\* on two blocks of the index; all_votes is a new map in the first call and
\* the map of the calls before it in the later ones, which keep the leader
ProbeCertificate(potential_certificate, leader) ==
    /\ pc = "ready"
    /\ probe # <<>> =>
           (probe[1].op = "is_certificate" /\ probe[1].leader = leader)
    /\ LET cache == IF probe = <<>> THEN <<>> ELSE all_votes
           out == is_certificate(unscored_blocks[potential_certificate],
                                 unscored_blocks[leader], cache)
       IN  /\ probe' = <<[op |-> "is_certificate",
                          candidate |-> potential_certificate,
                          leader |-> leader,
                          result |-> out.result,
                          cache |-> cache]>>
           /\ all_votes' = out.all_votes
           /\ leader_block' = {unscored_blocks[leader]}
    /\ UNCHANGED <<committee, committers, unscored_subdags, edits, previous>>
    /\ UNCHANGED <<pc, unscored_blocks, commit_range, scores_per_authority,
                   leader_round, last_leader_round, committer_idx,
                   decision_blocks, scored, results, error, authorities>>

NextVotes ==
    \/ \E ref \in VoteRefs :
           \E ancestors \in AncestorLists(ref.round) :
               PushBlock(ref, ancestors)
    \/ new
    \/ \E potential_vote \in DOMAIN unscored_blocks :
           \E leader \in DOMAIN unscored_blocks :
               ProbeVote(potential_vote, leader)
    \/ \E potential_certificate \in DOMAIN unscored_blocks :
           \E leader \in DOMAIN unscored_blocks :
               ProbeCertificate(potential_certificate, leader)

SpecVotes == InitVotes /\ [][NextVotes]_vars

----------------------------------------------------------------------------
(* Properties *)

Returned == results # <<>>
FirstScores == results[1].scores_per_authority

R_min == Min(LeaderRounds)
R_max == Max(LeaderRounds)

\* the certificates of the index: (leader round, sub-committer, block) with
\* the elected slot holding exactly one block L, the block at the decision
\* round of the leader's wave, and the block a certificate for L
Certificates ==
    {t \in (R_min..(R_max - Margin)) \X (1..Len(committers))
              \X {unscored_blocks[r] : r \in DOMAIN unscored_blocks} :
        LET c == committers[t[2]]
            slot == elect_leader(c, t[1])
        IN  /\ slot # {}
            /\ LET leader_blocks ==
                       get_blocks_at_slot(CHOOSE x \in slot : TRUE)
               IN  /\ Len(leader_blocks) = 1
                   /\ t[3].ref.round = decision_round(c, wave_number(c, t[1]))
                   /\ is_certificate(t[3], leader_blocks[1], <<>>).result}

\* C1: when calculate returns on a calculator fresh from new, the score of
\* every authority A is the number of certificates (leader round in
\* R_min..R_max-3, sub-committer, block) whose block is authored by A.
C1_ScoreIsCertificateCount ==
    (pc = "ready" /\ Len(results) = 1) =>
        \A a \in Authorities :
            FirstScores[a] =
                Cardinality({t \in Certificates : t[3].ref.author = a})

\* two leaders were certified by one authority and only one by another
C1_Witness ==
    /\ pc = "ready"
    /\ Len(results) = 1
    /\ \E a, b \in Authorities : FirstScores[a] = 2 /\ FirstScores[b] = 1

EqualStake4 == [a \in 0..3 |-> 1]
Pipelined ==
    <<SubCommitter(3, 0, 0), SubCommitter(3, 1, 0), SubCommitter(3, 2, 0)>>

\* the blocks of test_reputation_score_calculator: rounds 0..3 of four
\* authorities, every block upon all blocks of the round before, and
\* authority 0's block of round 4
ConnectedBlocks ==
    [i \in 1..17 |->
        LET round == (i - 1) \div 4
            author == (i - 1) % 4
        IN  [ref |-> BlockRef(round, author, 0),
             ancestors |-> IF round = 0 THEN <<>>
                           ELSE [k \in 1..4 |-> BlockRef(round - 1, k - 1, 0)]]]

\* test_scoring_with_missing_block_in_subdag: the block of round 1,
\* authority 0 is left out
ConnectedBlocksMissing == RemoveAt(ConnectedBlocks, 5)

TestInput(blocks) ==
    /\ committee = EqualStake4
    /\ committers = Pipelined
    /\ Len(unscored_subdags) = 1
    /\ unscored_subdags[1].blocks = blocks
    /\ unscored_subdags[1].commit_index = 1

TestExpected ==
    ReputationScoresNew(CommitRangeNew(1, 1), [a \in 0..3 |-> 1])

\* C2: on the fully connected window of the tests (N = 4, rounds 0..4, one
\* sub-DAG of commit_index 1) calculate returns scores [1,1,1,1] and
\* commit_range [1,1), also when the block of round 1, authority 0 is
\* missing from the input.
C2_TestScenarios ==
    (Returned /\ (TestInput(ConnectedBlocks)
                      \/ TestInput(ConnectedBlocksMissing)))
        => results[1] = TestExpected

C2_Witness ==
    /\ Returned
    /\ TestInput(ConnectedBlocksMissing)
    /\ results[1] = TestExpected

\* C3: authorities_by_score_desc returns every authority index once, with
\* its own score, by score descending and among equal scores by authority
\* index descending.
C3_SortedByScoreThenIndexDesc ==
    pc = "sorted" =>
        LET scores == results[1].scores_per_authority
        IN  /\ Len(authorities) = Size
            /\ \A a \in Authorities :
                   Cardinality({i \in 1..Len(authorities) :
                                   authorities[i][1] = a}) = 1
            /\ \A i \in 1..Len(authorities) :
                   /\ authorities[i][1] \in Authorities
                   /\ authorities[i][2] = scores[authorities[i][1]]
            /\ \A i, j \in 1..Len(authorities) :
                   i < j =>
                       \/ authorities[i][2] > authorities[j][2]
                       \/ /\ authorities[i][2] = authorities[j][2]
                          /\ authorities[i][1] > authorities[j][1]

\* test_reputation_scores_authorities_by_score_desc
C3_Witness ==
    /\ pc = "sorted"
    /\ results[1].scores_per_authority =
           [a \in 0..3 |-> IF a = 0 THEN 4 ELSE IF a = 3 THEN 3 ELSE 1]
    /\ authorities = << <<0, 4>>, <<3, 3>>, <<2, 1>>, <<1, 1>> >>

\* C5: a second calculate on the same calculator returns what the first
\* returned.
C5_SecondCallEqualsFirst ==
    Len(results) >= 2 => results[2] = results[1]

AllZero(scores) == \A a \in DOMAIN scores : scores[a] = 0

\* C6: when the non-genesis rounds satisfy R_max < R_min + 3, calculate
\* examines no leader, raises no error and returns the all-zero vector.
C6_ShortWindowIsNoOp ==
    (LeaderRounds # {} /\ R_max < R_min + Margin) =>
        /\ error = ""
        /\ pc # "score"
        /\ scored = {}
        /\ \A i \in 1..Len(results) : AllZero(results[i].scores_per_authority)

\* C7: no ReputationScores comes out of an input without blocks: new fails
\* with EmptyInput on an empty sub-DAG list, calculate fails with EmptyBlocks
\* when the list is not empty and its sub-DAGs hold no block.
C7_NoScoresWithoutBlocks ==
    /\ Returned => HasBlocks
    /\ (pc # "build" /\ unscored_subdags = <<>>) =>
           (pc = "panicked" /\ error = "EmptyInput")
    /\ (pc \notin {"build", "ready"} /\ unscored_subdags # <<>> /\ ~HasBlocks)
           => (pc = "panicked" /\ error = "EmptyBlocks")

C7_Witness ==
    /\ unscored_subdags # <<>>
    /\ ~HasBlocks
    /\ pc = "panicked"
    /\ error = "EmptyBlocks"

\* at least one sub-DAG, at least one block, at most one block per slot
\* (every author of the model is below N)
ValidInput ==
    /\ unscored_subdags # <<>>
    /\ HasBlocks
    /\ \A b1, b2 \in Range(AllBlocks) :
           SlotOf(b1.ref) = SlotOf(b2.ref) => b1 = b2
    /\ \A b \in Range(AllBlocks) : b.ref.author \in Authorities

\* C8: on a valid input calculate completes without failure and returns N
\* scores; the only failures are EmptyInput, EmptyBlocks and
\* InvariantViolation.
C8_ValidInputNeverFails ==
    /\ pc = "panicked" =>
           error \in {"EmptyInput", "EmptyBlocks", "InvariantViolation"}
    /\ ValidInput => pc # "panicked"
    /\ \A i \in 1..Len(results) :
           DOMAIN results[i].scores_per_authority = Authorities

CalculatorExists ==
    \/ pc \in {"ready", "loop", "score"}
    \/ pc = "panicked" /\ error # "EmptyInput"

CommitIndexes ==
    {unscored_subdags[i].commit_index : i \in 1..Len(unscored_subdags)}

\* C9: the commit_range of the calculator and of every ReputationScores it
\* returns is [min commit_index, max commit_index) over the sub-DAGs, so
\* start <= end, and calculate does not change it.
C9_CommitRangeIsMinMax ==
    CalculatorExists =>
        /\ commit_range.start = Min(CommitIndexes)
        /\ commit_range.end = Max(CommitIndexes)
        /\ commit_range.start <= commit_range.end
        /\ \A i \in 1..Len(results) : results[i].commit_range = commit_range

C9_Witness ==
    /\ Returned
    /\ Len(unscored_subdags) = 2
    /\ unscored_subdags[1].commit_index = 2
    /\ unscored_subdags[2].commit_index = 1
    /\ results[1].commit_range = CommitRangeNew(1, 2)

\* a slot elected for a leader round of R_min..R_max-3 holds several blocks
DoubleLeaderSlot ==
    /\ LeaderRounds # {}
    /\ \E round \in R_min..(R_max - Margin), i \in 1..Len(committers) :
           \E slot \in elect_leader(committers[i], round) :
               Len(get_blocks_at_slot(slot)) > 1

C10_States ==
    /\ (CalculatorExists /\ DoubleLeaderSlot) =>
           /\ results = <<>>
           /\ pc = "panicked" => error = "InvariantViolation"
    /\ pc = "score" =>
           \A leader \in leader_block :
               get_blocks_at_slot(SlotOf(leader.ref)) = <<leader>>

\* the step from an elected slot that holds no block
C10_EmptySlotSkipped ==
    (/\ pc = "loop"
     /\ InLeaderRange(leader_round)
     /\ leader_round <= R_max
     /\ \E slot \in elect_leader(committers[committer_idx], leader_round) :
            get_blocks_at_slot(slot) = <<>>)
        => /\ pc' = "loop"
           /\ error' = error
           /\ scores_per_authority' = scores_per_authority

\* C10: with several blocks at a slot elected for a leader round of
\* R_min..R_max-3, calculate returns no scores and fails with nothing but
\* InvariantViolation; a leader that is scored is the only block of its
\* slot; an elected slot without a block is skipped, no error, no score.
C10_LeaderSlotHoldsOneBlock ==
    []C10_States /\ [][C10_EmptySlotSkipped]_vars

C10_Witness ==
    /\ DoubleLeaderSlot
    /\ pc = "panicked"
    /\ error = "InvariantViolation"

----------------------------------------------------------------------------
(* C16 *)

\* the decision round of the leader that is being scored
ScoredDecisionRound ==
    LET committer == committers[committer_idx]
    IN  decision_round(committer, wave_number(committer, leader_round))

\* no decision block of the leader has been handed to is_certificate yet
ScoringStarts ==
    Len(decision_blocks) = Len(get_blocks_at_round(ScoredDecisionRound))

CacheIsSound(leader) ==
    \A ref \in DOMAIN all_votes :
        /\ ref \in DOMAIN unscored_blocks
        /\ all_votes[ref] = is_vote(unscored_blocks[ref], leader)

\* C16: while a leader is scored, the vote cache is empty before its first
\* decision block, every entry of the cache is a reference of the index
\* mapped to is_vote of that block for that leader, and is_certificate of
\* the next decision block returns with the shared cache what it returns
\* with an empty cache
C16_VoteCacheTransparent ==
    pc = "score" =>
        \A leader \in leader_block :
            /\ ScoringStarts => all_votes = <<>>
            /\ CacheIsSound(leader)
            /\ decision_blocks # <<>> =>
                   is_certificate(Head(decision_blocks), leader,
                                  all_votes).result
                   = is_certificate(Head(decision_blocks), leader,
                                    <<>>).result

\* a later decision block of a leader has ancestors that are in the cache
\* next to an ancestor that the index lacks
C16_Witness ==
    /\ pc = "score"
    /\ decision_blocks # <<>>
    /\ ~ScoringStarts
    /\ \E r \in Range(Head(decision_blocks).ancestors) :
           r \in DOMAIN all_votes
    /\ \E r \in Range(Head(decision_blocks).ancestors) :
           r \notin DOMAIN unscored_blocks

----------------------------------------------------------------------------
(* C12 *)

VoteProbed == probe # <<>> /\ probe[1].op = "is_vote"

\* every ancestor of every block of the index is of a lower round
AncestorsAreOlder ==
    \A ref \in DOMAIN unscored_blocks :
        \A a \in Range(unscored_blocks[ref].ancestors) : a.round < ref.round

\* the blocks that chains of listed ancestors lead to from the blocks S
\* through blocks of the index above round floor
RECURSIVE ChainBlocks(_, _)
ChainBlocks(S, floor) ==
    LET listed == UNION {Range(b.ancestors) : b \in S}
        next == S \cup {unscored_blocks[a] :
                           a \in {x \in listed :
                                     /\ x \in DOMAIN unscored_blocks
                                     /\ x.round > floor}}
    IN  IF next = S THEN S ELSE ChainBlocks(next, floor)

HasChain(v, L) ==
    \E b \in ChainBlocks({v}, L.ref.round) : L.ref \in Range(b.ancestors)

\* C12: with every ancestor of a lower round than its block, is_vote(v, L)
\* is true exactly when find_supported_block(Slot(L), v) is L's reference;
\* when it is true v is above L's round and a chain of listed ancestors
\* leads from v to L's reference through blocks of the index above L's
\* round; a block at L's round or below is not a vote
C12_VoteHasChain ==
    (VoteProbed /\ AncestorsAreOlder) =>
        LET p == probe[1]
            v == unscored_blocks[p.candidate]
            L == unscored_blocks[p.leader]
        IN  /\ p.result = (p.supported = {L.ref})
            /\ p.result => (v.ref.round > L.ref.round /\ HasChain(v, L))
            /\ v.ref.round <= L.ref.round => ~p.result

\* a vote that reaches the leader only through another block of the index
C12_Witness ==
    /\ VoteProbed
    /\ probe[1].result
    /\ probe[1].leader
           \notin Range(unscored_blocks[probe[1].candidate].ancestors)

----------------------------------------------------------------------------
(* C13 *)

CertificateProbed == probe # <<>> /\ probe[1].op = "is_certificate"

\* the ancestor references of the candidate that are in the index and are
\* votes for the leader
VoteAncestors(candidate, leader) ==
    {ref \in Range(candidate.ancestors) :
        /\ ref \in DOMAIN unscored_blocks
        /\ is_vote(unscored_blocks[ref], leader)}

VotingStake(candidate, leader) ==
    SumStake({ref.author : ref \in VoteAncestors(candidate, leader)})

\* C13: is_certificate returns true exactly when the stake of the distinct
\* authors of the candidate's ancestor references that are in the index and
\* are votes for the leader is at least the quorum threshold
C13_CertificateIsQuorumOfVotes ==
    CertificateProbed =>
        LET p == probe[1]
        IN  p.result =
                (VotingStake(unscored_blocks[p.candidate],
                             unscored_blocks[p.leader]) >= quorum_threshold)

\* a certificate whose votes reach the quorum threshold and no more
C13_Witness ==
    /\ CertificateProbed
    /\ probe[1].result
    /\ VotingStake(unscored_blocks[probe[1].candidate],
                   unscored_blocks[probe[1].leader]) = quorum_threshold

----------------------------------------------------------------------------
(* C14 *)

\* an ancestor at which the scan of find_supported_block ends
Decisive(leader_slot, ancestor) ==
    \/ SlotOf(ancestor) = leader_slot
    \/ /\ ancestor.round > leader_slot.round
       /\ \/ ancestor \notin DOMAIN unscored_blocks
          \/ find_supported_block(leader_slot, unscored_blocks[ancestor])
                 # {}

\* what the first decisive ancestor of the list makes of the call
FirstDecisive(leader_slot, ancestors) ==
    LET D == {i \in 1..Len(ancestors) : Decisive(leader_slot, ancestors[i])}
    IN  IF D = {} THEN {}
        ELSE LET a == ancestors[Min(D)]
             IN  IF SlotOf(a) = leader_slot THEN {a}
                 ELSE IF a \notin DOMAIN unscored_blocks THEN {}
                 ELSE find_supported_block(leader_slot, unscored_blocks[a])

\* C14: find_supported_block goes through the ancestors in stored order up
\* to the first that is at the leader slot (returned as it is), or is above
\* the slot's round and absent from the index (the call returns none), or
\* is above the slot's round and supports a block of the slot (returned);
\* ancestors at or below the slot's round that are not at the slot are
\* passed over
C14_FirstDecisiveAncestor ==
    VoteProbed =>
        LET p == probe[1]
            from == unscored_blocks[p.candidate]
            leader_slot == SlotOf(p.leader)
        IN  p.supported =
                IF from.ref.round < leader_slot.round THEN {}
                ELSE FirstDecisive(leader_slot, from.ancestors)

\* none is returned for an absent ancestor above the slot's round although
\* the next ancestor is the leader's reference
C14_Witness ==
    /\ VoteProbed
    /\ probe[1].supported = {}
    /\ LET ancestors == unscored_blocks[probe[1].candidate].ancestors
       IN  /\ Len(ancestors) = 2
           /\ ancestors[1].round > probe[1].leader.round
           /\ ancestors[1] \notin DOMAIN unscored_blocks
           /\ ancestors[2] = probe[1].leader

----------------------------------------------------------------------------
(* C11 *)

\* calculate has returned for the input the caller changed in the given way
Rescored(kind) ==
    /\ previous # <<>>
    /\ previous[1].change.kind = kind
    /\ pc = "ready"
    /\ Len(results) = 1

ScoresBefore == previous[1].result.scores_per_authority

\* the non-genesis rounds of the index span what they spanned before
SameRoundRange ==
    /\ previous[1].rounds # {}
    /\ Min(previous[1].rounds) = R_min
    /\ Max(previous[1].rounds) = R_max

\* the authors of the considered leaders the added block is a certificate
\* for
CertifiedLeaderAuthors ==
    {slot.authority :
        slot \in UNION {elect_leader(committers[t[2]], t[1]) :
                           t \in {c \in Certificates :
                                     c[3].ref = previous[1].change.block}}}

\* no slot is referred to under two BlockRefs, by blocks or by ancestors
OneRefPerSlot ==
    LET refs == DOMAIN unscored_blocks
                    \cup UNION {Range(unscored_blocks[r].ancestors) :
                                   r \in DOMAIN unscored_blocks}
    IN  \A r1 \in refs : \A r2 \in refs : SlotOf(r1) = SlotOf(r2) => r1 = r2

\* C11 as stated: when the input is extended by one block that is a
\* certificate for a considered leader L and the round range stays, the
\* score of L's author does not decrease and the score of every other
\* authority stays what it was
C11_OnlyLeaderAuthorMayChange ==
    (Rescored("extend") /\ SameRoundRange) =>
        \A leader_author \in CertifiedLeaderAuthors :
            /\ FirstScores[leader_author] >= ScoresBefore[leader_author]
            /\ \A a \in Authorities \ {leader_author} :
                   FirstScores[a] = ScoresBefore[a]

\* C11, amended: when the input is extended by one block that is a
\* certificate for a considered leader, the round range stays and no slot
\* is referred to under two BlockRefs, no authority's score decreases and
\* the score of the added block's author increases by at least 1
C11_NoScoreDecreases ==
    (/\ Rescored("extend")
     /\ SameRoundRange
     /\ OneRefPerSlot
     /\ CertifiedLeaderAuthors # {}) =>
        /\ \A a \in Authorities : FirstScores[a] >= ScoresBefore[a]
        /\ FirstScores[previous[1].change.block.author]
               >= ScoresBefore[previous[1].change.block.author] + 1

\* the added block certifies a leader of another authority, and its own
\* author's score is the only one that changed
C11_Witness ==
    /\ Rescored("extend")
    /\ SameRoundRange
    /\ CertifiedLeaderAuthors # {}
    /\ previous[1].change.block.author \notin CertifiedLeaderAuthors
    /\ \A a \in Authorities :
           FirstScores[a] = ScoresBefore[a]
               + (IF a = previous[1].change.block.author THEN 1 ELSE 0)

----------------------------------------------------------------------------
(* C15 *)

\* C15: new followed by calculate returns the same scores and the same
\* commit range when two sub-DAGs of the input change places, when two
\* blocks of a sub-DAG change places, and when a block is put a second
\* time into its own or into another sub-DAG
C15_OrderAndDuplicatesDoNotMatter ==
    \A kind \in {"swap_subdags", "swap_blocks", "duplicate"} :
        Rescored(kind) => results[1] = previous[1].result

\* sub-DAGs of different commit indexes changed places and leaders were
\* scored for the reordered input
C15_Witness ==
    /\ Rescored("swap_subdags")
    /\ unscored_subdags[1].commit_index > unscored_subdags[2].commit_index
    /\ \E a \in Authorities : FirstScores[a] > 0
    /\ results[1] = previous[1].result

====
